---- MODULE Spec2Model ----
(***************************************************************************)
(* Model of send.py: a script that opens one UDP socket and then, in an    *)
(* endless loop, sends b'Hello\n'*1000 to 127.0.0.1:5000 and sleeps one    *)
(* second.  The script has no try/except, no close() and no exit           *)
(* condition; the model follows its statements line by line.               *)
(*                                                                         *)
(* Environment: socket() and sendto() may raise (OSError); a caller may    *)
(* raise a cooperative cancellation flag (which the script has no way to   *)
(* read); time is a controllable clock that only the sleep advances.       *)
(***************************************************************************)
EXTENDS Integers, Sequences, FiniteSets, TLC

(* ---- bounds of the model ---------------------------------------------- *)
\* sendto() calls explored before the model stops the loop
MaxSends == 5
\* clock resolution: clock units per second (2 gives half seconds)
TicksPerSecond == 2

(* ---- literals of the script ------------------------------------------- *)
\* b'Hello\n' as byte values (line 18)
Hello == <<72, 101, 108, 108, 111, 10>>
\* the repetition count of b'Hello\n'*1000 (line 18)
Reps == 1000
\* (faulty variant: the loop sleeps two seconds)
SleepSecondsDouble == 1 + 1
\* the argument of time.sleep(1) (line 19)
SleepSeconds == 1
\* ('127.0.0.1', 5000) (line 14)
Loopback == "127.0.0.1"
Port == 5000

\* bytes.__mul__: s*n is n copies of s, one after another (empty for n <= 0)
RECURSIVE BytesRepeat(_, _)
\* (faulty variant: the last byte is lost)
BytesRepeatTruncated(s, n) ==
    [i \in 1..(Len(s) * n - 1) |-> s[((i - 1) % Len(s)) + 1]]
BytesRepeat(s, n) ==
    IF n <= 0 THEN <<>>
    ELSE IF n = 1 THEN s
    ELSE LET half == BytesRepeat(s, n \div 2)
         IN  half \o half \o (IF n % 2 = 1 THEN s ELSE <<>>)

VARIABLES
    pc,            \* the statement the script is at
    sk,            \* the socket object: "none" (not created), "open", "closed"
    addrport,      \* the module global addrport; <<>> before line 14
    err,           \* the exception socket() or sendto() raised, or "none"
    sends,         \* sk.sendto() calls made
    delivered,     \* sk.sendto() calls that handed a datagram to the network
    sleeps,        \* time.sleep() calls that returned
    socketsCreated,\* socket.socket() calls that returned a socket
    lastData,      \* bytes of the last datagram handed to the network
    lastDest,      \* destination of the last datagram
    now,           \* the clock, in units of 1/TicksPerSecond s
    wake,          \* when the sleep in progress ends
    cancel,        \* the caller's cancellation flag
    sendsAtCancel, \* sends when the flag was raised
    sleepsAtCancel \* sleeps when the flag was raised

vars == <<pc, sk, addrport, err, sends, delivered, sleeps, socketsCreated,
          lastData, lastDest, now, wake, cancel, sendsAtCancel, sleepsAtCancel>>

(* ---- control flow of the script --------------------------------------- *)
\* (faulty variant: the loop body sleeps before it sends)
NextPcSleepFirst(p) ==
    CASE p = "socket"   -> "addrport"
      [] p = "addrport" -> "print"
      [] p = "print"    -> "while"
      [] p = "while"    -> "sleep"
      [] p = "sleep"    -> "sendto"
      [] p = "sendto"   -> "while"
\* (faulty variant: the socket is opened again on every iteration)
NextPcReopen(p) ==
    CASE p = "socket"   -> "addrport"
      [] p = "addrport" -> "print"
      [] p = "print"    -> "while"
      [] p = "while"    -> "sendto"
      [] p = "sendto"   -> "sleep"
      [] p = "sleep"    -> "socket"
\* the statement that follows statement p: lines 13, 14, 15, then the loop
\* 17 -> 18 -> 19 -> 17
NextPc(p) ==
    CASE p = "socket"   -> "addrport"
      [] p = "addrport" -> "print"
      [] p = "print"    -> "while"
      [] p = "while"    -> "sendto"
      [] p = "sendto"   -> "sleep"
      [] p = "sleep"    -> "while"

\* (faulty variant: the loop runs until the caller cancels)
LoopCondUntilCancel == ~cancel
\* the condition of `while True:` (line 17)
LoopCond == TRUE

\* (faulty variant: a transient failure is caught and the loop goes on)
OnSendErrorCaught(kind) ==
    IF kind = "transient" THEN "sleep" ELSE "halted"
\* (faulty variant: every failure is swallowed)
OnSendErrorIgnored(kind) == "sleep"
\* where control goes when sk.sendto() raises: line 18 stands in no try
\* block, so the exception leaves the loop and the script ends
OnSendError(kind) == "halted"

\* (faulty variant: the socket is closed on the way out)
SocketOnUnwindClosed(s) == IF s = "open" THEN "closed" ELSE s
\* the socket when an exception leaves the script: no close(), no `with`,
\* no finally, so the object is left as it is
SocketOnUnwind(s) == s

Init ==
    /\ pc = "socket"
    /\ sk = "none"
    /\ addrport = <<>>
    /\ err = "none"
    /\ sends = 0
    /\ delivered = 0
    /\ sleeps = 0
    /\ socketsCreated = 0
    /\ lastData = <<>>
    /\ lastDest = <<>>
    /\ now = 0
    /\ wake = 0
    /\ cancel = FALSE
    /\ sendsAtCancel = 0
    /\ sleepsAtCancel = 0

(* ---- the statements ---------------------------------------------------- *)
\* line 13: sk = socket.socket(AF_INET, SOCK_DGRAM) returns a socket
CreateSocket ==
    /\ pc = "socket"
    /\ sk' = "open"
    /\ socketsCreated' = socketsCreated + 1
    /\ pc' = NextPc("socket")
    /\ UNCHANGED <<addrport, err, sends, delivered, sleeps, lastData, lastDest,
                   now, wake, cancel, sendsAtCancel, sleepsAtCancel>>

\* line 13: socket.socket() raises; nothing catches it
CreateSocketFails ==
    /\ pc = "socket"
    /\ err' = "fatal"
    /\ pc' = "halted"
    /\ sk' = SocketOnUnwind(sk)
    /\ UNCHANGED <<addrport, sends, delivered, sleeps, socketsCreated, lastData,
                   lastDest, now, wake, cancel, sendsAtCancel, sleepsAtCancel>>

\* line 14: addrport = (('127.0.0.1', 5000))
AssignAddrport ==
    /\ pc = "addrport"
    /\ addrport' = <<Loopback, Port>>
    /\ pc' = NextPc("addrport")
    /\ UNCHANGED <<sk, err, sends, delivered, sleeps, socketsCreated, lastData,
                   lastDest, now, wake, cancel, sendsAtCancel, sleepsAtCancel>>

\* line 15: print(sk)
PrintSk ==
    /\ pc = "print"
    /\ pc' = NextPc("print")
    /\ UNCHANGED <<sk, addrport, err, sends, delivered, sleeps, socketsCreated,
                   lastData, lastDest, now, wake, cancel, sendsAtCancel,
                   sleepsAtCancel>>

\* line 17: while True:
While ==
    /\ pc = "while"
    /\ pc' = IF LoopCond THEN NextPc("while") ELSE "halted"
    /\ UNCHANGED <<sk, addrport, err, sends, delivered, sleeps, socketsCreated,
                   lastData, lastDest, now, wake, cancel, sendsAtCancel,
                   sleepsAtCancel>>

\* line 18: sk.sendto(b'Hello\n'*1000, addrport) hands one datagram over
Sendto ==
    /\ pc = "sendto"
    /\ sends < MaxSends
    /\ sends' = sends + 1
    /\ delivered' = delivered + 1
    /\ lastData' = BytesRepeat(Hello, Reps)
    /\ lastDest' = addrport
    /\ pc' = NextPc("sendto")
    /\ UNCHANGED <<sk, addrport, err, sleeps, socketsCreated, now, wake, cancel,
                   sendsAtCancel, sleepsAtCancel>>

\* line 18: sk.sendto() raises OSError, of a kind the caller would call
\* transient (ENOBUFS, ENETUNREACH) or fatal (EBADF, EAFNOSUPPORT)
SendtoFails ==
    /\ pc = "sendto"
    /\ sends < MaxSends
    /\ \E kind \in {"transient", "fatal"} :
          /\ err' = kind
          /\ pc' = OnSendError(kind)
          /\ sk' = IF OnSendError(kind) = "halted" THEN SocketOnUnwind(sk) ELSE sk
    /\ sends' = sends + 1
    /\ UNCHANGED <<addrport, delivered, sleeps, socketsCreated, lastData, lastDest,
                   now, wake, cancel, sendsAtCancel, sleepsAtCancel>>

\* line 19: time.sleep(1) begins
Sleep ==
    /\ pc = "sleep"
    /\ pc' = "sleeping"
    /\ wake' = now + SleepSeconds * TicksPerSecond
    /\ UNCHANGED <<sk, addrport, err, sends, delivered, sleeps, socketsCreated,
                   lastData, lastDest, now, cancel, sendsAtCancel, sleepsAtCancel>>

\* line 19: the clock advances while the script sleeps
Tick ==
    /\ pc = "sleeping"
    /\ now < wake
    /\ now' = now + 1
    /\ UNCHANGED <<pc, sk, addrport, err, sends, delivered, sleeps, socketsCreated,
                   lastData, lastDest, wake, cancel, sendsAtCancel, sleepsAtCancel>>

\* line 19: time.sleep(1) returns once the second is over
Wakeup ==
    /\ pc = "sleeping"
    /\ now >= wake
    /\ sleeps' = sleeps + 1
    /\ pc' = NextPc("sleep")
    /\ UNCHANGED <<sk, addrport, err, sends, delivered, socketsCreated, lastData,
                   lastDest, now, wake, cancel, sendsAtCancel, sleepsAtCancel>>

\* the caller raises the cancellation flag; no statement of the script reads it
Cancel ==
    /\ ~cancel
    /\ pc # "halted"
    /\ cancel' = TRUE
    /\ sendsAtCancel' = sends
    /\ sleepsAtCancel' = sleeps
    /\ UNCHANGED <<pc, sk, addrport, err, sends, delivered, sleeps, socketsCreated,
                   lastData, lastDest, now, wake>>

\* the steps of the script itself and of its clock
Step ==
    \/ CreateSocket
    \/ AssignAddrport
    \/ PrintSk
    \/ While
    \/ Sendto
    \/ Sleep
    \/ Tick
    \/ Wakeup

Next ==
    \/ CreateSocket
    \/ CreateSocketFails
    \/ AssignAddrport
    \/ PrintSk
    \/ While
    \/ Sendto
    \/ SendtoFails
    \/ Sleep
    \/ Tick
    \/ Wakeup
    \/ Cancel

Spec == Init /\ [][Next]_vars

\* the interpreter keeps executing the script and the clock keeps running;
\* failures and cancellation are never forced
FairSpec == Init /\ [][Next]_vars /\ WF_vars(Step)

(* ======================================================================= *)
(* The claims                                                              *)
(* ======================================================================= *)

\* 3.5 s on the clock
RunEnd == (7 * TicksPerSecond) \div 2

\* C1: the first send happens before the first sleep: no state has a sleep
\* about to start, started or completed while the number of sends is still 0.
C1_FirstSendBeforeSleep ==
    (pc \in {"sleep", "sleeping"} \/ sleeps > 0) => sends >= 1
\* the first sleep is in progress, after exactly one send
C1_Witness == pc = "sleeping" /\ sleeps = 0 /\ sends = 1 /\ delivered = 1

\* C2 as stated: a transient failure of sendto() never ends the loop.
C2_Original == err = "transient" => pc # "halted"
\* C2, amended: a failure of sendto() on tick k, transient or not, ends the
\* loop: the exception leaves the script, the sleep of tick k is not
\* performed and there is no further send.
C2_SendFailureEndsLoop ==
    (err = "transient") =>
        /\ pc = "halted"
        /\ sleeps = sends - 1
        /\ delivered = sends - 1
\* a transient failure on the third tick has ended the script
C2_Witness ==
    err = "transient" /\ pc = "halted" /\ sends = 3 /\ sleeps = 2

\* C3 as stated: once the cancellation flag is raised the send count never
\* increases.
C3_Original == cancel => sends = sendsAtCancel
\* C3, amended: the loop does not observe the cancellation flag: with the
\* flag raised, line 17 still enters the loop body and line 18 still calls
\* sendto(), so the send count goes on increasing.
C3_CancelNotObserved ==
    [][ /\ (cancel /\ pc = "while" => pc' = "sendto")
        /\ (cancel /\ pc = "sendto" => sends' = sends + 1) ]_vars
\* two datagrams went out after the flag was raised
C3_Witness ==
    cancel /\ sends >= sendsAtCancel + 2 /\ delivered = sends /\ err = "none"

\* C4 as stated: after cancellation the loop completes no more than the
\* sleep in progress before it exits.
C4_Original == cancel => sleeps <= sleepsAtCancel + 1
\* C4, amended: cancellation never makes the loop exit (the script ends only
\* when socket() or sendto() raises), and the script never closes its socket:
\* once created it is open in every state, the terminated one included.
C4_NoExitNoClose ==
    /\ (cancel /\ err = "none") => pc # "halted"
    /\ (socketsCreated > 0) => sk = "open"
    /\ (socketsCreated = 0) => sk = "none"
\* the script has ended after a cancellation, its socket still open
C4_Witness ==
    cancel /\ pc = "halted" /\ sk = "open" /\ sleeps >= sleepsAtCancel + 2

\* C5 as stated: after a fatal failure the script has ended and its socket
\* is released.
C5_Original == err = "fatal" => (pc = "halted" /\ sk # "open")
\* C5, amended: a failure of socket() or a fatal failure of sendto() ends the
\* script with the exception propagating and no further send or sleep; the
\* script does not release the socket: after a failed socket() there is none,
\* after a failed sendto() it is still open.
C5_FatalEndsScript ==
    (err = "fatal") =>
        /\ pc = "halted"
        /\ \/ socketsCreated = 0 /\ sk = "none" /\ sends = 0 /\ sleeps = 0
           \/ socketsCreated = 1 /\ sk = "open" /\ sleeps = sends - 1
\* a fatal failure of the second sendto()
C5_Witness ==
    err = "fatal" /\ pc = "halted" /\ sends = 2 /\ sleeps = 1 /\ sk = "open"

\* C7: every datagram handed to the network is b'Hello\n' repeated 1000
\* times, 6000 bytes, unchanged from tick to tick, and goes to
\* ('127.0.0.1', 5000).
C7_PayloadAndDestination ==
    (delivered > 0) =>
        /\ Len(lastData) = 6000
        /\ \A i \in 1..Len(lastData) : lastData[i] = Hello[((i - 1) % 6) + 1]
        /\ lastDest = <<"127.0.0.1", 5000>>
\* the third datagram has gone out
C7_Witness == delivered = 3 /\ pc = "sleep"

\* C8 as stated: a failure-free run cancelled at 3.5 s has made exactly 4
\* sends of 6000 bytes and has closed its socket.
C8_Original ==
    (err = "none" /\ cancel /\ now = RunEnd) =>
        (sends = 4 /\ Len(lastData) = 6000 /\ sk = "closed")
\* C8, amended: with the script's fixed interval of 1 s and no failure, the
\* number of sends at clock time T is floor(T) or floor(T) + 1, and
\* floor(T) + 1 whenever a sleep is under way; at 3.5 s exactly 4 sends of
\* 6000 bytes have been made, and the script is asleep with its socket open
\* (nothing cancels the run or closes the socket).
C8_SendCount ==
    (err = "none") =>
        LET f == now \div TicksPerSecond IN
        /\ sends \in {f, f + 1}
        /\ (pc = "sleeping" /\ now < wake) => sends = f + 1
        /\ (now = RunEnd) =>
              /\ sends = 4
              /\ delivered = 4
              /\ Len(lastData) = 6000
              /\ pc = "sleeping"
              /\ sk = "open"
\* the clock reads 3.5 s, cancellation has been asked for
C8_Witness == err = "none" /\ cancel /\ now = RunEnd /\ sends = 4

\* C9 as stated: the script ends only through cancellation or a fatal error.
C9_Original == pc = "halted" => (cancel \/ err = "fatal")
\* C9, amended: the script ends only when socket() or sendto() raises
\* (transient failures included; cancellation is no exit path); as long as
\* neither raises it keeps sending: every send up to the MaxSends-th
\* eventually happens.
C9_NeverExits ==
    /\ [](pc = "halted" => err # "none")
    /\ <>(err # "none" \/ sends = MaxSends)
\* MaxSends datagrams have gone out and the loop is still running
C9_Witness ==
    sends = MaxSends /\ delivered = MaxSends /\ err = "none" /\ pc = "sleeping"

\* C10: sends and sleeps alternate, starting with a send, one of each per
\* tick: (sends) - (sleeps completed) is 0 or 1 in every state, 1 exactly
\* between a send and the end of its sleep; the socket is created once.
C10_Alternation ==
    /\ sends - sleeps \in {0, 1}
    /\ pc \in {"sleep", "sleeping"} => sends - sleeps = 1
    /\ pc \in {"while", "sendto"} => sends = sleeps
    /\ socketsCreated <= 1
    /\ delivered <= sends
\* the third tick is about to send
C10_Witness == pc = "sendto" /\ sends = 2 /\ sleeps = 2 /\ socketsCreated = 1
====
